---- MODULE Spec2Model ----
(***************************************************************************)
(* libsw-core: a stopwatch that accumulates elapsed time across            *)
(* start/stop cycles, generic over a timekeeping type (trait Instant).     *)
(*                                                                         *)
(* Durations are the integers 0..DurationMax (DurationMax stands for       *)
(* core::time::Duration::MAX).  Instants are the integers 0..InstantMax:   *)
(* a time line with a least and a greatest representable point, as         *)
(* std::time::Instant has; Instant::checked_add / checked_sub return None  *)
(* when they would leave it.  Option<T> is a sequence of length 0 or 1.    *)
(*                                                                         *)
(* The methods of Stopwatch are operators from the receiver and the        *)
(* arguments to the new receiver (and the returned value).  One action per *)
(* method applies it to the stopwatch `sw` and records the call in `last`  *)
(* (method, arguments, receiver before the call, returned value).          *)
(*                                                                         *)
(* Equality and hashing (PartialEq, Hash) go through Canonical.  They are   *)
(* functions of stopwatch values only; SpecEq draws three stopwatches into *)
(* `cmp`, compares them pairwise and hashes them, as the tests do over     *)
(* mixed_stopwatches().                                                    *)
(***************************************************************************)
EXTENDS Integers, Sequences, FiniteSets, TLC

VARIABLES sw, now, last, hist, cmp

vars == <<sw, now, last, hist, cmp>>

\* ---- bounds ----
DurationMax == 3
InstantMax == 3
MaxCycles == 3

Durations == 0..DurationMax
Instants == 0..InstantMax

Min(a, b) == IF a <= b THEN a ELSE b
Max(a, b) == IF a >= b THEN a ELSE b

\* ---- Option<T> ----
None == <<>>
Some(x) == <<x>>
is_some(o) == Len(o) = 1
unwrap(o) == o[1]
unwrap_or(o, d) == IF is_some(o) THEN o[1] ELSE d

OptInstants == {None} \cup {Some(t) : t \in Instants}

\* ---- core::time::Duration arithmetic ----
dur_checked_add(a, b) == IF a + b <= DurationMax THEN Some(a + b) ELSE None
dur_saturating_add(a, b) == IF a + b <= DurationMax THEN a + b ELSE DurationMax
dur_checked_sub(a, b) == IF b <= a THEN Some(a - b) ELSE None
dur_saturating_sub(a, b) == IF b <= a THEN a - b ELSE 0

\* ---- trait Instant ----
instant_checked_add(t, d) == IF t + d <= InstantMax THEN Some(t + d) ELSE None
instant_checked_sub(t, d) == IF t - d >= 0 THEN Some(t - d) ELSE None

saturating_duration_since_abs(self, earlier) ==
    IF self >= earlier THEN self - earlier ELSE earlier - self
saturating_duration_since(self, earlier) ==
    IF self >= earlier THEN self - earlier ELSE 0

\* ---- Stopwatch: constructors ----
from_raw(elapsed, start) == [elapsed |-> elapsed, start |-> start]
with_elapsed(elapsed) == from_raw(elapsed, None)
new == with_elapsed(0)
default == new
new_started_at(start) == from_raw(0, Some(start))
with_elapsed_started_epoch(elapsed, clock) == from_raw(elapsed, Some(0))
with_elapsed_started(elapsed, clock) == from_raw(elapsed, Some(clock))
new_started(clock) == with_elapsed_started(0, clock)

Stopwatches == [elapsed : Durations, start : OptInstants]

\* ---- Stopwatch: queries ----
is_running(self) == is_some(self.start)
is_stopped(self) == ~is_running(self)

checked_elapsed_at_saturating(self, anchor) ==
    IF is_some(self.start)
    THEN Some(dur_saturating_add(self.elapsed,
                                 saturating_duration_since(anchor, unwrap(self.start))))
    ELSE Some(self.elapsed)
checked_elapsed_at_epoch(self, anchor) ==
    dur_checked_add(self.elapsed,
                    saturating_duration_since(anchor, unwrap_or(self.start, 0)))
checked_elapsed_at(self, anchor) ==
    IF is_some(self.start)
    THEN dur_checked_add(self.elapsed,
                         saturating_duration_since(anchor, unwrap(self.start)))
    ELSE Some(self.elapsed)

elapsed_at_zero(self, anchor) == unwrap_or(checked_elapsed_at(self, anchor), 0)
elapsed_at(self, anchor) == unwrap_or(checked_elapsed_at(self, anchor), DurationMax)

\* ---- Stopwatch: arithmetic on the stored elapsed ----
saturating_add_unclamped(self, dur) ==
    [self EXCEPT !.elapsed = self.elapsed + dur]
saturating_add(self, dur) ==
    [self EXCEPT !.elapsed = dur_saturating_add(self.elapsed, dur)]

checked_add_strict(self, dur) ==
    IF self.elapsed + dur < DurationMax
    THEN Some([self EXCEPT !.elapsed = self.elapsed + dur])
    ELSE None
checked_add_running_total(self, dur) ==
    IF /\ is_some(checked_elapsed_at(self, now))
       /\ unwrap(checked_elapsed_at(self, now)) + dur <= DurationMax
    THEN Some([self EXCEPT !.elapsed = self.elapsed + dur])
    ELSE None
checked_add(self, dur) ==
    IF is_some(dur_checked_add(self.elapsed, dur))
    THEN Some([self EXCEPT !.elapsed = unwrap(dur_checked_add(self.elapsed, dur))])
    ELSE None

\* ---- Stopwatch: start, stop, toggle ----
start_at_accumulating(self, anchor) ==
    [elapsed |-> elapsed_at(self, anchor), start |-> Some(anchor)]
start_at_resetting(self, anchor) == from_raw(0, Some(anchor))
start_at(self, anchor) == [self EXCEPT !.start = Some(anchor)]

stop_at_keep_elapsed(self, anchor) == [self EXCEPT !.start = None]
stop_at_drop_overflow(self, anchor) ==
    IF is_some(self.start)
    THEN unwrap_or(checked_add([self EXCEPT !.start = None],
                               saturating_duration_since(anchor, unwrap(self.start))),
                   [self EXCEPT !.start = None])
    ELSE self
stop_at_from_epoch(self, anchor) ==
    saturating_add([self EXCEPT !.start = None],
                   saturating_duration_since(anchor, unwrap_or(self.start, 0)))
stop_at(self, anchor) ==
    IF is_some(self.start)
    THEN saturating_add([self EXCEPT !.start = None],
                        saturating_duration_since(anchor, unwrap(self.start)))
    ELSE self

set_keep_start(self, new_elapsed) == [self EXCEPT !.elapsed = new_elapsed]
set(self, new_elapsed) == with_elapsed(new_elapsed)
reset(self) == new

\* checked_stop_at and checked_toggle_at return <<receiver afterwards, bool>>
checked_stop_at_take(self, anchor) ==
    IF is_some(self.start)
    THEN LET r == checked_add(self, saturating_duration_since(anchor, unwrap(self.start)))
         IN  IF is_some(r) THEN <<set(self, unwrap(r).elapsed), TRUE>>
                           ELSE <<[self EXCEPT !.start = None], FALSE>>
    ELSE <<self, TRUE>>
checked_stop_at(self, anchor) ==
    IF is_some(self.start)
    THEN LET r == checked_add(self, saturating_duration_since(anchor, unwrap(self.start)))
         IN  IF is_some(r) THEN <<set(self, unwrap(r).elapsed), TRUE>>
                           ELSE <<self, FALSE>>
    ELSE <<self, TRUE>>

toggle_at_restart(self, anchor) == start_at(self, anchor)
toggle_at(self, anchor) ==
    IF is_running(self) THEN stop_at(self, anchor) ELSE start_at(self, anchor)

checked_toggle_at(self, anchor) ==
    IF is_running(self) THEN checked_stop_at(self, anchor)
                        ELSE <<start_at(self, anchor), TRUE>>

\* ---- Stopwatch: set / reset / replace ----
set_in_place_at_stops(self, new_elapsed, anchor) == set(self, new_elapsed)
set_in_place_at(self, new_elapsed, anchor) ==
    IF is_running(self) THEN start_at(set(self, new_elapsed), anchor)
                        ELSE set(self, new_elapsed)
reset_in_place_at(self, start) == set_in_place_at(self, 0, start)

\* replace_at returns <<receiver afterwards, previous elapsed_at(anchor)>>
replace_at_stale(self, new_elapsed, anchor) == <<set(self, new_elapsed), self.elapsed>>
replace_at(self, new_elapsed, anchor) ==
    <<set(self, new_elapsed), elapsed_at(self, anchor)>>

\* ---- Stopwatch: private helpers of the subtraction family ----
saturate_anchor_to_start_unclamped(self, anchor) == anchor
saturate_anchor_to_start(self, anchor) ==
    IF is_some(self.start)
    THEN LET future == saturating_duration_since(anchor, unwrap(self.start))
             past == saturating_duration_since(unwrap(self.start), anchor)
         IN  IF future < past THEN unwrap(self.start) ELSE anchor
    ELSE anchor

saturating_sync_elapsed_at(self, anchor) ==
    IF is_some(self.start)
    THEN [saturating_add(self, saturating_duration_since(anchor, unwrap(self.start)))
            EXCEPT !.start = Some(anchor)]
    ELSE self

\* checked_sync_elapsed_at returns Option<receiver afterwards>
checked_sync_elapsed_at_keep_start(self, anchor) ==
    IF is_some(self.start)
    THEN checked_add(self, saturating_duration_since(anchor, unwrap(self.start)))
    ELSE Some(self)
checked_sync_elapsed_at(self, anchor) ==
    IF is_some(self.start)
    THEN LET r == checked_add(self, saturating_duration_since(anchor, unwrap(self.start)))
         IN  IF is_some(r) THEN Some([unwrap(r) EXCEPT !.start = Some(anchor)])
                           ELSE None
    ELSE Some(self)

\* ---- Stopwatch: subtraction ----
saturating_sub_at_no_sync(self, dur, anchor) ==
    [self EXCEPT !.elapsed = dur_saturating_sub(self.elapsed, dur)]
saturating_sub_at(self, dur, anchor) ==
    LET a == saturate_anchor_to_start(self, anchor)
        synced == saturating_sync_elapsed_at(self, a)
    IN  [synced EXCEPT !.elapsed = dur_saturating_sub(synced.elapsed, dur)]

checked_sub_at_clamp_zero(self, dur, anchor) ==
    LET a == saturate_anchor_to_start(self, anchor)
        synced == checked_sync_elapsed_at(self, a)
    IN  IF is_some(synced)
        THEN Some([unwrap(synced) EXCEPT
                     !.elapsed = dur_saturating_sub(unwrap(synced).elapsed, dur)])
        ELSE None
checked_sub_at_saturating_sync(self, dur, anchor) ==
    LET a == saturate_anchor_to_start(self, anchor)
        synced == saturating_sync_elapsed_at(self, a)
        n == dur_checked_sub(synced.elapsed, dur)
    IN  IF is_some(n) THEN Some([synced EXCEPT !.elapsed = unwrap(n)]) ELSE None
checked_sub_at(self, dur, anchor) ==
    LET a == saturate_anchor_to_start(self, anchor)
        synced == checked_sync_elapsed_at(self, a)
    IN  IF is_some(synced)
        THEN LET n == dur_checked_sub(unwrap(synced).elapsed, dur)
             IN  IF is_some(n) THEN Some([unwrap(synced) EXCEPT !.elapsed = unwrap(n)])
                               ELSE None
        ELSE None

\* ---- operator sugar: sw + dur, sw - dur ----
\* Option::expect: the value, or a panic
expect(o) == IF is_some(o) THEN [panic |-> FALSE, value |-> o]
                           ELSE [panic |-> TRUE, value |-> None]

add_saturating(self, dur) == expect(Some(saturating_add(self, dur)))
add(self, dur) == expect(checked_add(self, dur))

\* sub calls checked_sub, which reads the clock
sub(self, dur, clock) == expect(checked_sub_at(self, dur, clock))

\* ---- Canonical: the projection used by PartialEq and Hash ----
instant_eq_one_way(lhs, rhs) == saturating_duration_since(lhs, rhs) = 0
instant_eq(lhs, rhs) ==
    saturating_duration_since(lhs, rhs) = saturating_duration_since(rhs, lhs)

Stopped(d) == [variant |-> "Stopped", payload |-> Some(d)]
Bounded(t) == [variant |-> "Bounded", payload |-> Some(t)]
Unbounded == [variant |-> "Unbounded", payload |-> None]

canonical_new_saturating(self) ==
    IF is_some(self.start)
    THEN Bounded(unwrap_or(instant_checked_sub(unwrap(self.start), self.elapsed), 0))
    ELSE Stopped(self.elapsed)
canonical_new_raw_start(self) ==
    IF is_some(self.start) THEN Bounded(unwrap(self.start)) ELSE Stopped(self.elapsed)
canonical_new(self) ==
    IF is_some(self.start)
    THEN LET sum == instant_checked_sub(unwrap(self.start), self.elapsed)
         IN  IF is_some(sum) THEN Bounded(unwrap(sum)) ELSE Unbounded
    ELSE Stopped(self.elapsed)

canonical_eq_no_discriminant(lhs, rhs) == lhs.payload = rhs.payload
canonical_eq_variant_only(lhs, rhs) == lhs.variant = rhs.variant
canonical_eq_unbounded_never(lhs, rhs) ==
    IF lhs.variant # rhs.variant
    THEN FALSE
    ELSE CASE lhs.variant = "Stopped" -> unwrap(lhs.payload) = unwrap(rhs.payload)
           [] lhs.variant = "Bounded" ->
                saturating_duration_since(unwrap(lhs.payload), unwrap(rhs.payload))
                    = saturating_duration_since(unwrap(rhs.payload), unwrap(lhs.payload))
           [] lhs.variant = "Unbounded" -> FALSE
canonical_eq(lhs, rhs) ==
    IF lhs.variant # rhs.variant
    THEN FALSE
    ELSE CASE lhs.variant = "Stopped" -> unwrap(lhs.payload) = unwrap(rhs.payload)
           [] lhs.variant = "Bounded" -> instant_eq(unwrap(lhs.payload), unwrap(rhs.payload))
           [] lhs.variant = "Unbounded" -> TRUE

\* the data fed to the Hasher, in order: the discriminant, then the payload
canonical_hash_no_tag(self) ==
    IF self.variant = "Unbounded" THEN <<>> ELSE <<unwrap(self.payload)>>
canonical_hash(self) ==
    CASE self.variant = "Stopped" -> <<self.variant, unwrap(self.payload)>>
      [] self.variant = "Bounded" -> <<self.variant, unwrap(self.payload)>>
      [] self.variant = "Unbounded" -> <<self.variant>>

\* impl PartialEq for Stopwatch, impl Hash for Stopwatch
stopwatch_eq_elapsed_now(self, rhs) ==
    /\ is_running(self) = is_running(rhs)
    /\ elapsed_at(self, now) = elapsed_at(rhs, now)
stopwatch_eq(self, rhs) == canonical_eq(canonical_new(self), canonical_new(rhs))

stopwatch_hash_fields(self) == <<self.elapsed, self.start>>
stopwatch_hash(self) == canonical_hash(canonical_new(self))

\* ---- the state machine ----
Call(op, anchor, dur, ret) ==
    [op |-> op, anchor |-> anchor, dur |-> dur, pre |-> sw, ret |-> ret]

Init ==
    /\ sw = new
    /\ now = 0
    /\ last = [op |-> "new", anchor |-> None, dur |-> None, pre |-> new, ret |-> None]
    /\ hist = <<>>
    /\ cmp = [a |-> new, b |-> new, c |-> new, eqs |-> None, hashes |-> None,
                          eq_at |-> <<>>, hash_at |-> <<>>]

\* the clock (I::now()) advances; std::time::Instant is monotonic
Tick ==
    /\ now < InstantMax
    /\ now' = now + 1
    /\ UNCHANGED <<sw, last, hist, cmp>>

\* -- constructors: the caller replaces its stopwatch by a fresh one --
New ==
    /\ sw' = new
    /\ last' = Call("new", None, None, None)
    /\ UNCHANGED <<now, hist, cmp>>

Default ==
    /\ sw' = default
    /\ last' = Call("default", None, None, None)
    /\ UNCHANGED <<now, hist, cmp>>

WithElapsed ==
    \E e \in Durations :
        /\ sw' = with_elapsed(e)
        /\ last' = Call("with_elapsed", None, e, None)
        /\ UNCHANGED <<now, hist, cmp>>

NewStartedAt ==
    \E a \in Instants :
        /\ sw' = new_started_at(a)
        /\ last' = Call("new_started_at", a, None, None)
        /\ UNCHANGED <<now, hist, cmp>>

NewStarted ==
    /\ sw' = new_started(now)
    /\ last' = Call("new_started", now, None, None)
    /\ UNCHANGED <<now, hist, cmp>>

WithElapsedStarted ==
    \E e \in Durations :
        /\ sw' = with_elapsed_started(e, now)
        /\ last' = Call("with_elapsed_started", now, e, None)
        /\ UNCHANGED <<now, hist, cmp>>

FromRaw ==
    \E e \in Durations, s \in OptInstants :
        /\ sw' = from_raw(e, s)
        /\ last' = Call("from_raw", s, e, None)
        /\ UNCHANGED <<now, hist, cmp>>

\* -- queries --
ElapsedAt ==
    \E a \in Instants :
        /\ last' = Call("elapsed_at", a, None, elapsed_at(sw, a))
        /\ UNCHANGED <<sw, now, hist, cmp>>

Elapsed ==
    /\ last' = Call("elapsed", now, None, elapsed_at(sw, now))
    /\ UNCHANGED <<sw, now, hist, cmp>>

CheckedElapsedAt ==
    \E a \in Instants :
        /\ last' = Call("checked_elapsed_at", a, None, checked_elapsed_at(sw, a))
        /\ UNCHANGED <<sw, now, hist, cmp>>

CheckedElapsed ==
    /\ last' = Call("checked_elapsed", now, None, checked_elapsed_at(sw, now))
    /\ UNCHANGED <<sw, now, hist, cmp>>

\* -- start / stop / toggle --
StartAt ==
    \E a \in Instants :
        /\ sw' = start_at(sw, a)
        /\ last' = Call("start_at", a, None, None)
        /\ UNCHANGED <<now, hist, cmp>>

Start ==
    /\ sw' = start_at(sw, now)
    /\ last' = Call("start", now, None, None)
    /\ UNCHANGED <<now, hist, cmp>>

StopAt ==
    \E a \in Instants :
        /\ sw' = stop_at(sw, a)
        /\ last' = Call("stop_at", a, None, None)
        /\ UNCHANGED <<now, hist, cmp>>

Stop ==
    /\ sw' = stop_at(sw, now)
    /\ last' = Call("stop", now, None, None)
    /\ UNCHANGED <<now, hist, cmp>>

CheckedStopAt ==
    \E a \in Instants :
        /\ sw' = checked_stop_at(sw, a)[1]
        /\ last' = Call("checked_stop_at", a, None, checked_stop_at(sw, a)[2])
        /\ UNCHANGED <<now, hist, cmp>>

CheckedStop ==
    /\ sw' = checked_stop_at(sw, now)[1]
    /\ last' = Call("checked_stop", now, None, checked_stop_at(sw, now)[2])
    /\ UNCHANGED <<now, hist, cmp>>

ToggleAt ==
    \E a \in Instants :
        /\ sw' = toggle_at(sw, a)
        /\ last' = Call("toggle_at", a, None, None)
        /\ UNCHANGED <<now, hist, cmp>>

Toggle ==
    /\ sw' = toggle_at(sw, now)
    /\ last' = Call("toggle", now, None, None)
    /\ UNCHANGED <<now, hist, cmp>>

CheckedToggleAt ==
    \E a \in Instants :
        /\ sw' = checked_toggle_at(sw, a)[1]
        /\ last' = Call("checked_toggle_at", a, None, checked_toggle_at(sw, a)[2])
        /\ UNCHANGED <<now, hist, cmp>>

CheckedToggle ==
    /\ sw' = checked_toggle_at(sw, now)[1]
    /\ last' = Call("checked_toggle", now, None, checked_toggle_at(sw, now)[2])
    /\ UNCHANGED <<now, hist, cmp>>

\* -- set / reset / replace --
Reset ==
    /\ sw' = reset(sw)
    /\ last' = Call("reset", None, None, None)
    /\ UNCHANGED <<now, hist, cmp>>

ResetInPlaceAt ==
    \E a \in Instants :
        /\ sw' = reset_in_place_at(sw, a)
        /\ last' = Call("reset_in_place_at", a, None, None)
        /\ UNCHANGED <<now, hist, cmp>>

ResetInPlace ==
    /\ sw' = reset_in_place_at(sw, now)
    /\ last' = Call("reset_in_place", now, None, None)
    /\ UNCHANGED <<now, hist, cmp>>

Set ==
    \E d \in Durations :
        /\ sw' = set(sw, d)
        /\ last' = Call("set", None, d, None)
        /\ UNCHANGED <<now, hist, cmp>>

SetInPlaceAt ==
    \E d \in Durations, a \in Instants :
        /\ sw' = set_in_place_at(sw, d, a)
        /\ last' = Call("set_in_place_at", a, d, None)
        /\ UNCHANGED <<now, hist, cmp>>

SetInPlace ==
    \E d \in Durations :
        /\ sw' = set_in_place_at(sw, d, now)
        /\ last' = Call("set_in_place", now, d, None)
        /\ UNCHANGED <<now, hist, cmp>>

ReplaceAt ==
    \E d \in Durations, a \in Instants :
        /\ sw' = replace_at(sw, d, a)[1]
        /\ last' = Call("replace_at", a, d, replace_at(sw, d, a)[2])
        /\ UNCHANGED <<now, hist, cmp>>

Replace ==
    \E d \in Durations :
        /\ sw' = replace_at(sw, d, now)[1]
        /\ last' = Call("replace", now, d, replace_at(sw, d, now)[2])
        /\ UNCHANGED <<now, hist, cmp>>

\* -- arithmetic: the methods take the stopwatch by value and return the   --
\* -- new one; the caller assigns it back (sw = sw.saturating_add(d)), and --
\* -- keeps its stopwatch when a checked method returns None               --
SaturatingAdd ==
    \E d \in Durations :
        /\ sw' = saturating_add(sw, d)
        /\ last' = Call("saturating_add", None, d, saturating_add(sw, d))
        /\ UNCHANGED <<now, hist, cmp>>

SaturatingSubAt ==
    \E d \in Durations, a \in Instants :
        /\ sw' = saturating_sub_at(sw, d, a)
        /\ last' = Call("saturating_sub_at", a, d, saturating_sub_at(sw, d, a))
        /\ UNCHANGED <<now, hist, cmp>>

SaturatingSub ==
    \E d \in Durations :
        /\ sw' = saturating_sub_at(sw, d, now)
        /\ last' = Call("saturating_sub", now, d, saturating_sub_at(sw, d, now))
        /\ UNCHANGED <<now, hist, cmp>>

CheckedAdd ==
    \E d \in Durations :
        /\ sw' = unwrap_or(checked_add(sw, d), sw)
        /\ last' = Call("checked_add", None, d, checked_add(sw, d))
        /\ UNCHANGED <<now, hist, cmp>>

CheckedSubAt ==
    \E d \in Durations, a \in Instants :
        /\ sw' = unwrap_or(checked_sub_at(sw, d, a), sw)
        /\ last' = Call("checked_sub_at", a, d, checked_sub_at(sw, d, a))
        /\ UNCHANGED <<now, hist, cmp>>

CheckedSub ==
    \E d \in Durations :
        /\ sw' = unwrap_or(checked_sub_at(sw, d, now), sw)
        /\ last' = Call("checked_sub", now, d, checked_sub_at(sw, d, now))
        /\ UNCHANGED <<now, hist, cmp>>

\* -- sw = sw + d, sw = sw - d (also sw += d, sw -= d); a panic leaves the --
\* -- caller's stopwatch as it was                                        --
Add ==
    \E d \in Durations :
        /\ sw' = unwrap_or(add(sw, d).value, sw)
        /\ last' = Call("add", None, d, add(sw, d))
        /\ UNCHANGED <<now, hist, cmp>>

Sub ==
    \E d \in Durations :
        /\ sw' = unwrap_or(sub(sw, d, now).value, sw)
        /\ last' = Call("sub", now, d, sub(sw, d, now))
        /\ UNCHANGED <<now, hist, cmp>>

Next ==
    \/ Tick
    \/ New \/ Default \/ WithElapsed \/ NewStartedAt \/ NewStarted \/ WithElapsedStarted \/ FromRaw
    \/ ElapsedAt \/ Elapsed \/ CheckedElapsedAt \/ CheckedElapsed
    \/ StartAt \/ Start \/ StopAt \/ Stop \/ CheckedStopAt \/ CheckedStop
    \/ ToggleAt \/ Toggle \/ CheckedToggleAt \/ CheckedToggle
    \/ Reset \/ ResetInPlaceAt \/ ResetInPlace \/ Set \/ SetInPlaceAt \/ SetInPlace
    \/ ReplaceAt \/ Replace
    \/ SaturatingAdd \/ SaturatingSubAt \/ SaturatingSub
    \/ CheckedAdd \/ CheckedSubAt \/ CheckedSub
    \/ Add \/ Sub

Spec == Init /\ [][Next]_vars

\* ---- complete start_at / stop_at cycles from new() ----
\* hist is the sequence of the completed cycles <<s_i, t_i>>
SumIntervals(h) ==
    LET sum[i \in 0..Len(h)] == IF i = 0 THEN 0 ELSE sum[i - 1] + (h[i][2] - h[i][1])
    IN  sum[Len(h)]

CycleStart ==
    /\ is_stopped(sw)
    /\ Len(hist) < MaxCycles
    /\ \E s \in Instants :
        /\ sw' = start_at(sw, s)
        /\ last' = Call("start_at", s, None, None)
    /\ UNCHANGED <<now, hist, cmp>>

CycleStop ==
    /\ is_running(sw)
    /\ \E t \in Instants :
        /\ unwrap(sw.start) <= t
        /\ sw' = stop_at(sw, t)
        /\ last' = Call("stop_at", t, None, None)
        /\ hist' = Append(hist, <<unwrap(sw.start), t>>)
    /\ UNCHANGED <<now, cmp>>

CyclesNext == CycleStart \/ CycleStop

SpecCycles == Init /\ [][CyclesNext]_vars

\* ---- equality and hashing of three stopwatches ----
EqInit ==
    /\ sw = new
    /\ now = 0
    /\ last = [op |-> "new", anchor |-> None, dur |-> None, pre |-> new, ret |-> None]
    /\ hist = <<>>
    /\ \E a \in Stopwatches, b \in Stopwatches, c \in Stopwatches :
            cmp = [a |-> a, b |-> b, c |-> c, eqs |-> None, hashes |-> None,
                          eq_at |-> <<>>, hash_at |-> <<>>]

Eq ==
    /\ IF cmp.eq_at = <<>> THEN TRUE ELSE cmp.eq_at[Len(cmp.eq_at)] < now
    /\ cmp' = [cmp EXCEPT !.eq_at = Append(@, now),
                          !.eqs = Some([aa |-> stopwatch_eq(cmp.a, cmp.a),
                                        bb |-> stopwatch_eq(cmp.b, cmp.b),
                                        ab |-> stopwatch_eq(cmp.a, cmp.b),
                                        ba |-> stopwatch_eq(cmp.b, cmp.a),
                                        bc |-> stopwatch_eq(cmp.b, cmp.c),
                                        ac |-> stopwatch_eq(cmp.a, cmp.c)])]
    /\ UNCHANGED <<sw, now, last, hist>>

Hash ==
    /\ IF cmp.hash_at = <<>> THEN TRUE ELSE cmp.hash_at[Len(cmp.hash_at)] < now
    /\ cmp' = [cmp EXCEPT !.hash_at = Append(@, now),
                          !.hashes = Some([a |-> stopwatch_hash(cmp.a),
                                           b |-> stopwatch_hash(cmp.b),
                                           c |-> stopwatch_hash(cmp.c)])]
    /\ UNCHANGED <<sw, now, last, hist>>

EqNext == Eq \/ Hash

SpecEq == EqInit /\ [][EqNext]_vars

\* Comparison and hashing of two fixed stopwatches while the clock advances:
\* both may be evaluated again at every new clock value.
EqClockInit ==
    /\ sw = new
    /\ now = 0
    /\ last = [op |-> "new", anchor |-> None, dur |-> None, pre |-> new, ret |-> None]
    /\ hist = <<>>
    /\ \E a \in Stopwatches, b \in Stopwatches :
            cmp = [a |-> a, b |-> b, c |-> new, eqs |-> None, hashes |-> None,
                   eq_at |-> <<>>, hash_at |-> <<>>]

EqClockNext == Tick \/ Eq \/ Hash

SpecEqClock == EqClockInit /\ [][EqClockNext]_vars

\* ---- properties ----
\* the interval in progress of a running stopwatch as of an anchor, in the
\* words of the specification: anchor - start, zero when anchor precedes start
IntervalAt(self, anchor) ==
    IF is_some(self.start) THEN Max(0, anchor - unwrap(self.start)) ELSE 0

\* the logical elapsed time as of an anchor, before any clamping
LogicalElapsedAt(self, anchor) == self.elapsed + IntervalAt(self, anchor)

\* C1: from new(), after any sequence of complete start_at(s_i) / stop_at(t_i)
\* cycles with s_i <= t_i the stopwatch is stopped and its elapsed is
\* min(Duration::MAX, sum of (t_i - s_i)).
C1_CyclesAccumulate ==
    /\ last.op = "stop_at" => is_stopped(sw)
    /\ is_stopped(sw) => sw.elapsed = Min(DurationMax, SumIntervals(hist))

C1_Witness ==
    /\ is_stopped(sw)
    /\ Len(hist) = 2
    /\ hist[1][2] > hist[1][1]
    /\ hist[2][2] > hist[2][1]
    /\ sw.elapsed = SumIntervals(hist)

\* C2: stop_at(anchor) on a running stopwatch with stored elapsed e and start s
\* leaves it stopped with elapsed = min(Duration::MAX, e + max(0, anchor - s));
\* with anchor earlier than the start, elapsed is unchanged.
C2_StopAtAccumulates ==
    (last.op \in {"stop_at", "stop"} /\ is_running(last.pre)) =>
        /\ sw.start = None
        /\ sw.elapsed = Min(DurationMax, LogicalElapsedAt(last.pre, last.anchor))
        /\ last.anchor < unwrap(last.pre.start) => sw.elapsed = last.pre.elapsed

C2_Witness ==
    /\ last.op = "stop_at"
    /\ is_running(last.pre)
    /\ last.pre.elapsed > 0
    /\ last.pre.elapsed + (last.anchor - unwrap(last.pre.start)) > DurationMax
    /\ sw = with_elapsed(DurationMax)

\* C3: start_at(anchor) sets start = Some(anchor) in every state and never
\* changes the stored elapsed; on a running stopwatch the interval in progress
\* is discarded, so elapsed_at(anchor) right afterwards is the stored elapsed.
C3_StartAtOverwrites ==
    last.op \in {"start_at", "start"} =>
        /\ sw.start = Some(last.anchor)
        /\ sw.elapsed = last.pre.elapsed
        /\ elapsed_at(sw, last.anchor) = last.pre.elapsed

C3_Witness ==
    /\ last.op = "start_at"
    /\ is_running(last.pre)
    /\ last.anchor > unwrap(last.pre.start)
    /\ last.pre.elapsed < DurationMax
    /\ sw = from_raw(last.pre.elapsed, Some(last.anchor))

\* C4: checked_elapsed_at(anchor) returns None exactly when the stopwatch is
\* running and elapsed + max(0, anchor - start) exceeds Duration::MAX, and
\* otherwise Some of that sum; elapsed_at(anchor) returns the same value with
\* None replaced by Duration::MAX.
C4_CheckedElapsedAt ==
    LET total == LogicalElapsedAt(last.pre, last.anchor)
        overflow == is_running(last.pre) /\ total > DurationMax
    IN  /\ last.op \in {"checked_elapsed_at", "checked_elapsed"} =>
            last.ret = IF overflow THEN None ELSE Some(total)
        /\ last.op \in {"elapsed_at", "elapsed"} =>
            last.ret = IF overflow THEN DurationMax ELSE total

C4_Witness ==
    /\ last.op = "checked_elapsed_at"
    /\ is_running(last.pre)
    /\ last.pre.elapsed < DurationMax
    /\ last.ret = None

\* C5: for a running stopwatch and every anchor at or before its start,
\* elapsed_at(anchor) is exactly the stored elapsed; a stopwatch started at a
\* future anchor reports no growth of elapsed() until the clock reaches it.
C5_AnchorBeforeStart ==
    (/\ last.op \in {"elapsed_at", "elapsed"}
     /\ is_running(last.pre)
     /\ last.anchor <= unwrap(last.pre.start)) => last.ret = last.pre.elapsed

C5_Witness ==
    /\ last.op = "elapsed"
    /\ is_running(last.pre)
    /\ last.anchor > 0
    /\ last.anchor < unwrap(last.pre.start)
    /\ last.pre.elapsed > 0
    /\ last.ret = last.pre.elapsed

\* C6: for every state and every two anchors a1 <= a2 at or after start,
\* elapsed_at(a1) <= elapsed_at(a2).
C6_ElapsedMonotonic ==
    \A a1, a2 \in Instants :
        (a1 <= a2 /\ (is_running(sw) => unwrap(sw.start) <= a1)) =>
            elapsed_at(sw, a1) <= elapsed_at(sw, a2)

C6_Witness ==
    /\ last.op = "elapsed_at"
    /\ sw = last.pre
    /\ is_running(sw)
    /\ last.anchor > unwrap(sw.start)
    /\ checked_elapsed_at(sw, last.anchor) = None
    /\ \E a1 \in Instants :
        /\ unwrap(sw.start) <= a1
        /\ a1 < last.anchor
        /\ elapsed_at(sw, a1) < last.ret

\* C7: while a stopwatch is stopped, elapsed_at(anchor) is the stored elapsed
\* for every anchor, so elapsed() does not change as the clock advances.
C7_StoppedElapsedFrozen ==
    /\ is_stopped(sw) => \A a \in Instants : elapsed_at(sw, a) = sw.elapsed
    /\ (last.op \in {"elapsed_at", "elapsed"} /\ is_stopped(last.pre)) =>
            last.ret = last.pre.elapsed

C7_Witness ==
    /\ last.op = "elapsed"
    /\ is_stopped(last.pre)
    /\ last.anchor = InstantMax
    /\ last.pre.elapsed > 0
    /\ last.ret = last.pre.elapsed

\* C8: checked_stop_at(anchor) and checked_toggle_at(anchor) return false
\* exactly when the stopwatch is running and elapsed + max(0, anchor - start)
\* exceeds Duration::MAX; then elapsed and start are unchanged and the
\* stopwatch is still running.
C8_CheckedStopFails ==
    last.op \in {"checked_stop_at", "checked_stop",
                 "checked_toggle_at", "checked_toggle"} =>
        /\ last.ret = FALSE <=>
              (/\ is_running(last.pre)
               /\ LogicalElapsedAt(last.pre, last.anchor) > DurationMax)
        /\ last.ret = FALSE => (sw = last.pre /\ is_running(sw))

C8_Witness ==
    /\ last.op = "checked_toggle_at"
    /\ last.ret = FALSE
    /\ is_running(sw)

\* C9: whenever a checked operation succeeds (checked_add / checked_sub_at
\* return Some, checked_stop_at / checked_toggle_at return true) the resulting
\* (elapsed, start) is the one its saturating counterpart produces on the same
\* input.
C9_CheckedMatchesSaturating ==
    /\ (last.op = "checked_add" /\ is_some(last.ret)) =>
            /\ unwrap(last.ret) = saturating_add(last.pre, last.dur)
            /\ sw = unwrap(last.ret)
    /\ (last.op \in {"checked_sub_at", "checked_sub"} /\ is_some(last.ret)) =>
            /\ unwrap(last.ret) = saturating_sub_at(last.pre, last.dur, last.anchor)
            /\ sw = unwrap(last.ret)
    /\ (last.op \in {"checked_stop_at", "checked_stop"} /\ last.ret = TRUE) =>
            sw = stop_at(last.pre, last.anchor)
    /\ (last.op \in {"checked_toggle_at", "checked_toggle"} /\ last.ret = TRUE) =>
            sw = toggle_at(last.pre, last.anchor)

C9_Witness ==
    /\ last.op = "checked_sub_at"
    /\ is_running(last.pre)
    /\ is_some(last.ret)
    /\ last.anchor > unwrap(last.pre.start)
    /\ last.dur > 0
    /\ sw.elapsed > 0

\* C10: after any sequence of saturating operations the stored elapsed stays
\* within [0, Duration::MAX], every such operation completes (it yields a
\* stopwatch), and elapsed_at returns a value within [0, Duration::MAX].
SaturatingOps ==
    {"start_at", "start", "stop_at", "stop", "toggle_at", "toggle",
     "saturating_add", "saturating_sub_at", "saturating_sub", "set", "reset",
     "set_in_place_at", "set_in_place", "reset_in_place_at", "reset_in_place",
     "replace_at", "replace"}

C10_SaturatingStaysInRange ==
    last.op \in SaturatingOps =>
        /\ sw \in Stopwatches
        /\ \A a \in Instants : elapsed_at(sw, a) \in Durations
        /\ last.op \in {"replace_at", "replace"} => last.ret \in Durations

C10_Witness ==
    /\ last.op = "saturating_sub_at"
    /\ is_running(last.pre)
    /\ LogicalElapsedAt(last.pre, last.anchor) > DurationMax
    /\ last.dur > DurationMax - 1
    /\ sw.elapsed = 0

\* C11: checked_add(dur) returns None exactly when stored elapsed + dur exceeds
\* Duration::MAX and otherwise the stopwatch with elapsed + dur (a sum equal to
\* Duration::MAX still succeeds); saturating_add(dur) always returns the
\* stopwatch with elapsed = min(Duration::MAX, elapsed + dur).
C11_AddOverflow ==
    /\ last.op = "checked_add" =>
          last.ret = IF last.pre.elapsed + last.dur > DurationMax
                     THEN None
                     ELSE Some(from_raw(last.pre.elapsed + last.dur, last.pre.start))
    /\ last.op = "saturating_add" =>
          last.ret = from_raw(Min(DurationMax, last.pre.elapsed + last.dur),
                              last.pre.start)

C11_Witness ==
    /\ last.op = "checked_add"
    /\ last.pre.elapsed > 0
    /\ last.dur > 0
    /\ last.pre.elapsed + last.dur = DurationMax
    /\ is_some(last.ret)
    /\ sw.elapsed = DurationMax

\* C12: on a stopped stopwatch checked_sub_at(dur, anchor) returns None exactly
\* when dur > elapsed and otherwise a stopped stopwatch with elapsed - dur
\* (a difference of zero still succeeds), for every anchor; the original
\* stopwatch keeps its elapsed.
C12_CheckedSubStopped ==
    (last.op \in {"checked_sub_at", "checked_sub"} /\ is_stopped(last.pre)) =>
        /\ last.ret = IF last.dur > last.pre.elapsed
                      THEN None
                      ELSE Some(with_elapsed(last.pre.elapsed - last.dur))
        /\ last.ret = None => sw = last.pre

C12_Witness ==
    /\ last.op = "checked_sub_at"
    /\ is_stopped(last.pre)
    /\ last.anchor > 0
    /\ last.pre.elapsed > 0
    /\ last.dur = last.pre.elapsed + 1
    /\ last.ret = None
    /\ sw.elapsed = last.pre.elapsed

\* C13: on a running stopwatch checked_sub_at(dur, anchor) returns None whenever
\* elapsed + (anchor - start) exceeds Duration::MAX before the subtraction, for
\* every dur (zero included, and durations large enough that the final result
\* would fit); it also returns None when the synchronized elapsed is smaller
\* than dur.
C13_CheckedSubRunning ==
    (last.op \in {"checked_sub_at", "checked_sub"} /\ is_running(last.pre)) =>
        /\ LogicalElapsedAt(last.pre, last.anchor) > DurationMax => last.ret = None
        /\ LogicalElapsedAt(last.pre, last.anchor) < last.dur => last.ret = None

C13_Witness ==
    /\ last.op = "checked_sub_at"
    /\ is_running(last.pre)
    /\ LogicalElapsedAt(last.pre, last.anchor) > DurationMax
    /\ last.dur > 0
    /\ LogicalElapsedAt(last.pre, last.anchor) - last.dur <= DurationMax
    /\ last.ret = None

\* C14: saturating_sub_at(dur, anchor) on a running stopwatch folds the running
\* interval into elapsed and then subtracts: with anchor' the later of anchor
\* and start, the result is running with start = anchor' and its
\* elapsed_at(anchor') is max(0, E - dur), E being the original stopwatch's
\* elapsed_at(anchor').
C14_SaturatingSubSyncs ==
    (last.op \in {"saturating_sub_at", "saturating_sub"} /\ is_running(last.pre)) =>
        LET later == Max(last.anchor, unwrap(last.pre.start))
            E == Min(DurationMax, LogicalElapsedAt(last.pre, later))
        IN  /\ last.ret.start = Some(later)
            /\ elapsed_at(last.ret, later) = Max(0, E - last.dur)
            /\ E = elapsed_at(last.pre, later)

C14_Witness ==
    /\ last.op = "saturating_sub_at"
    /\ is_running(last.pre)
    /\ last.anchor > unwrap(last.pre.start)
    /\ last.pre.elapsed > 0
    /\ LogicalElapsedAt(last.pre, last.anchor) <= DurationMax
    /\ last.dur > last.pre.elapsed
    /\ last.ret.elapsed > 0

\* C15: for a running stopwatch, every dur and every anchor at or before start,
\* checked_sub_at(dur, anchor) and saturating_sub_at(dur, anchor) return
\* exactly what they return for anchor = start, and the stopwatch is still
\* running.
C15_EarlierAnchorIsStart ==
    (/\ last.op \in {"checked_sub_at", "checked_sub",
                     "saturating_sub_at", "saturating_sub"}
     /\ is_running(last.pre)
     /\ last.anchor <= unwrap(last.pre.start)) =>
        LET s == unwrap(last.pre.start)
        IN  /\ last.op \in {"checked_sub_at", "checked_sub"} =>
                  /\ last.ret = IF last.dur > last.pre.elapsed
                                THEN None
                                ELSE Some(from_raw(last.pre.elapsed - last.dur, Some(s)))
                  /\ last.ret = checked_sub_at(last.pre, last.dur, s)
            /\ last.op \in {"saturating_sub_at", "saturating_sub"} =>
                  /\ last.ret = from_raw(Max(0, last.pre.elapsed - last.dur), Some(s))
                  /\ last.ret = saturating_sub_at(last.pre, last.dur, s)
            /\ is_running(sw)

C15_Witness ==
    /\ last.op = "checked_sub_at"
    /\ is_running(last.pre)
    /\ last.anchor < unwrap(last.pre.start)
    /\ last.dur > 0
    /\ is_some(last.ret)
    /\ sw.start = last.pre.start

\* C16: sw + dur and sw - dur panic exactly when checked_add(dur) /
\* checked_sub(dur) would return None, and otherwise return exactly the
\* stopwatch the checked form returns; they never return a clamped value.
C16_OperatorsPanic ==
    /\ last.op = "add" =>
          /\ last.ret.panic <=> (last.pre.elapsed + last.dur > DurationMax)
          /\ last.ret.panic <=> (checked_add(last.pre, last.dur) = None)
          /\ ~last.ret.panic =>
                /\ last.ret.value = checked_add(last.pre, last.dur)
                /\ unwrap(last.ret.value).elapsed = last.pre.elapsed + last.dur
    /\ last.op = "sub" =>
          /\ last.ret.panic <=>
                (\/ LogicalElapsedAt(last.pre, last.anchor) > DurationMax
                 \/ LogicalElapsedAt(last.pre, last.anchor) < last.dur)
          /\ last.ret.panic <=> (checked_sub_at(last.pre, last.dur, last.anchor) = None)
          /\ ~last.ret.panic =>
                /\ last.ret.value = checked_sub_at(last.pre, last.dur, last.anchor)
                /\ unwrap(last.ret.value).elapsed =
                      LogicalElapsedAt(last.pre, last.anchor) - last.dur

C16_Witness ==
    /\ last.op = "add"
    /\ last.pre.elapsed < DurationMax
    /\ last.ret.panic
    /\ sw = last.pre

\* start - elapsed of a running stopwatch is a representable instant
Representable(self) == is_running(self) /\ unwrap(self.start) - self.elapsed >= 0

\* C17: for every running from_raw(e, Some(s)) and every d <= e for which s - d
\* is a representable instant, from_raw(e - d, Some(s - d)) compares equal to
\* from_raw(e, Some(s)) although their fields differ.
C17_ShiftedStartEqual ==
    (/\ is_some(cmp.eqs)
     /\ is_running(cmp.a)
     /\ is_running(cmp.b)
     /\ cmp.b.elapsed <= cmp.a.elapsed
     /\ unwrap(cmp.a.start) - (cmp.a.elapsed - cmp.b.elapsed) = unwrap(cmp.b.start)) =>
        /\ unwrap(cmp.eqs).ab
        /\ unwrap(cmp.eqs).ba

C17_Witness ==
    /\ is_some(cmp.eqs)
    /\ is_running(cmp.a)
    /\ is_running(cmp.b)
    /\ cmp.b.elapsed > 0
    /\ cmp.b.elapsed < cmp.a.elapsed
    /\ unwrap(cmp.a.start) - (cmp.a.elapsed - cmp.b.elapsed) = unwrap(cmp.b.start)
    /\ Representable(cmp.a)
    /\ unwrap(cmp.eqs).ab

\* C18: stopwatch equality is an equivalence relation over all states: a == a;
\* a == b iff b == a; a == b and b == c imply a == c.
C18_EqIsEquivalence ==
    is_some(cmp.eqs) =>
        LET r == unwrap(cmp.eqs)
        IN  /\ r.aa
            /\ r.bb
            /\ r.ab <=> r.ba
            /\ (r.ab /\ r.bc) => r.ac

C18_Witness ==
    /\ is_some(cmp.eqs)
    /\ unwrap(cmp.eqs).ab
    /\ unwrap(cmp.eqs).bc
    /\ unwrap(cmp.eqs).ac
    /\ Representable(cmp.a)
    /\ cmp.a # cmp.b
    /\ cmp.b # cmp.c
    /\ cmp.a # cmp.c

\* C19: a == b implies that hashing a and hashing b feed the hasher the same
\* data (the same variant tag and the same payload).
C19_EqualHashEqual ==
    (is_some(cmp.eqs) /\ is_some(cmp.hashes)) =>
        /\ unwrap(cmp.eqs).ab => unwrap(cmp.hashes).a = unwrap(cmp.hashes).b
        /\ unwrap(cmp.eqs).bc => unwrap(cmp.hashes).b = unwrap(cmp.hashes).c
        /\ unwrap(cmp.eqs).ac => unwrap(cmp.hashes).a = unwrap(cmp.hashes).c

C19_Witness ==
    /\ is_some(cmp.eqs)
    /\ is_some(cmp.hashes)
    /\ unwrap(cmp.eqs).ab
    /\ cmp.a # cmp.b
    /\ Representable(cmp.a)
    /\ unwrap(cmp.hashes).a = unwrap(cmp.hashes).b

\* C20 (as claimed): if two stopwatches compare equal they are observably
\* identical: is_running() agrees and elapsed_at(anchor) returns the same
\* value on both for every anchor.
C20_EqualObservablyIdentical ==
    (is_some(cmp.eqs) /\ unwrap(cmp.eqs).ab) =>
        /\ is_running(cmp.a) = is_running(cmp.b)
        /\ \A anchor \in Instants :
              elapsed_at(cmp.a, anchor) = elapsed_at(cmp.b, anchor)

\* C20 (amended): if two stopwatches compare equal, is_running() agrees; and
\* when both are stopped, or both are running with a representable
\* start - elapsed, elapsed_at(anchor) returns the same value on both for every
\* anchor at or after both of their starts.
C20_EqualObservablyIdenticalAfterStart ==
    (is_some(cmp.eqs) /\ unwrap(cmp.eqs).ab) =>
        /\ is_running(cmp.a) = is_running(cmp.b)
        /\ (is_stopped(cmp.a) /\ is_stopped(cmp.b)) =>
              \A anchor \in Instants :
                  elapsed_at(cmp.a, anchor) = elapsed_at(cmp.b, anchor)
        /\ (Representable(cmp.a) /\ Representable(cmp.b)) =>
              \A anchor \in Instants :
                  (unwrap(cmp.a.start) <= anchor /\ unwrap(cmp.b.start) <= anchor) =>
                      elapsed_at(cmp.a, anchor) = elapsed_at(cmp.b, anchor)

C20_Witness ==
    /\ is_some(cmp.eqs)
    /\ unwrap(cmp.eqs).ab
    /\ Representable(cmp.a)
    /\ Representable(cmp.b)
    /\ cmp.a.elapsed > cmp.b.elapsed
    /\ elapsed_at(cmp.a, unwrap(cmp.b.start)) # elapsed_at(cmp.b, unwrap(cmp.b.start))
    /\ elapsed_at(cmp.a, unwrap(cmp.a.start)) = elapsed_at(cmp.b, unwrap(cmp.a.start))

\* C21: stopwatches whose canonical forms are different variants are never
\* equal: a stopped stopwatch never equals a running one (even when their
\* elapsed_at values coincide), and a running stopwatch whose start - elapsed
\* is representable never equals a running one whose start - elapsed is not.
C21_DifferentVariantsUnequal ==
    is_some(cmp.eqs) =>
        /\ is_stopped(cmp.a) # is_stopped(cmp.b) =>
              (~unwrap(cmp.eqs).ab /\ ~unwrap(cmp.eqs).ba)
        /\ (/\ is_running(cmp.a)
            /\ is_running(cmp.b)
            /\ Representable(cmp.a) # Representable(cmp.b)) =>
              (~unwrap(cmp.eqs).ab /\ ~unwrap(cmp.eqs).ba)

C21_Witness ==
    /\ is_some(cmp.eqs)
    /\ is_stopped(cmp.a)
    /\ Representable(cmp.b)
    /\ cmp.a.elapsed > 0
    /\ \A anchor \in Instants : elapsed_at(cmp.a, anchor) = elapsed_at(cmp.b, anchor)
    /\ is_running(cmp.c)
    /\ ~Representable(cmp.c)
    /\ ~unwrap(cmp.eqs).ab
    /\ ~unwrap(cmp.eqs).bc

\* C22: two running stopwatches whose start - elapsed are both representable
\* are equal if and only if start1 - elapsed1 and start2 - elapsed2 are the
\* same instant; two that report the same elapsed_at at some anchor but have
\* different such instants are not equal.
C22_BoundedEqualIffSamePoint ==
    (is_some(cmp.eqs) /\ Representable(cmp.a) /\ Representable(cmp.b)) =>
        (unwrap(cmp.eqs).ab <=>
            (unwrap(cmp.a.start) - cmp.a.elapsed = unwrap(cmp.b.start) - cmp.b.elapsed))

C22_Witness ==
    /\ is_some(cmp.eqs)
    /\ Representable(cmp.a)
    /\ Representable(cmp.b)
    /\ unwrap(cmp.a.start) - cmp.a.elapsed > unwrap(cmp.b.start) - cmp.b.elapsed
    /\ \E anchor \in Instants : elapsed_at(cmp.a, anchor) = elapsed_at(cmp.b, anchor)
    /\ ~unwrap(cmp.eqs).ab

\* C23: two stopped stopwatches are equal if and only if their stored elapsed
\* durations are equal.
C23_StoppedEqualIffElapsed ==
    (is_some(cmp.eqs) /\ is_stopped(cmp.a) /\ is_stopped(cmp.b)) =>
        (unwrap(cmp.eqs).ab <=> (cmp.a.elapsed = cmp.b.elapsed))

C23_Witness ==
    /\ is_some(cmp.eqs)
    /\ is_stopped(cmp.a)
    /\ is_stopped(cmp.b)
    /\ is_stopped(cmp.c)
    /\ cmp.a.elapsed > 0
    /\ cmp.a.elapsed # cmp.b.elapsed
    /\ cmp.a.elapsed = cmp.c.elapsed
    /\ ~unwrap(cmp.eqs).ab
    /\ unwrap(cmp.eqs).ac

\* C24: any two running stopwatches for which start - elapsed is not a
\* representable instant compare equal, whatever their elapsed and start are.
C24_UnboundedAllEqual ==
    (/\ is_some(cmp.eqs)
     /\ is_running(cmp.a)
     /\ is_running(cmp.b)
     /\ ~Representable(cmp.a)
     /\ ~Representable(cmp.b)) =>
        (unwrap(cmp.eqs).ab /\ unwrap(cmp.eqs).ba)

C24_Witness ==
    /\ is_some(cmp.eqs)
    /\ is_running(cmp.a)
    /\ is_running(cmp.b)
    /\ ~Representable(cmp.a)
    /\ ~Representable(cmp.b)
    /\ cmp.a.elapsed # cmp.b.elapsed
    /\ cmp.a.start # cmp.b.start
    /\ unwrap(cmp.a.start) - cmp.a.elapsed # unwrap(cmp.b.start) - cmp.b.elapsed
    /\ unwrap(cmp.eqs).ab

\* C25: the result of comparing two stopwatches and the data a stopwatch
\* feeds to a hasher depend only on the (elapsed, start) states, never on the
\* clock: evaluating a == b or hash(a) again at a later clock time gives the
\* same result as before.
C25_EqHashIgnoreClock ==
    [][/\ (is_some(cmp.eqs) /\ is_some(cmp'.eqs)) => cmp'.eqs = cmp.eqs
       /\ (is_some(cmp.hashes) /\ is_some(cmp'.hashes)) => cmp'.hashes = cmp.hashes]_vars

C25_Witness ==
    /\ Len(cmp.eq_at) >= 2
    /\ Len(cmp.hash_at) >= 2
    /\ cmp.eq_at[1] < cmp.eq_at[Len(cmp.eq_at)]
    /\ cmp.hash_at[1] < cmp.hash_at[Len(cmp.hash_at)]
    /\ is_running(cmp.a)
    /\ is_running(cmp.b)
    /\ elapsed_at(cmp.a, cmp.eq_at[1]) = elapsed_at(cmp.b, cmp.eq_at[1])
    /\ elapsed_at(cmp.a, now) # elapsed_at(cmp.b, now)
    /\ elapsed_at(cmp.a, cmp.hash_at[1]) # elapsed_at(cmp.a, now)

\* C26: toggle_at(anchor) always flips is_running(): a stopped stopwatch
\* becomes running with start = anchor and elapsed unchanged, a running one
\* becomes stopped with the stop_at(anchor) result, i.e. elapsed =
\* min(Duration::MAX, elapsed + max(0, anchor - start)); checked_toggle_at does
\* the same whenever it returns true.
C26_ToggleFlips ==
    (\/ last.op \in {"toggle_at", "toggle"}
     \/ (last.op \in {"checked_toggle_at", "checked_toggle"} /\ last.ret = TRUE)) =>
        /\ is_running(sw) # is_running(last.pre)
        /\ is_stopped(last.pre) =>
              (sw.start = Some(last.anchor) /\ sw.elapsed = last.pre.elapsed)
        /\ is_running(last.pre) =>
              /\ sw.start = None
              /\ sw.elapsed = Min(DurationMax, LogicalElapsedAt(last.pre, last.anchor))
              /\ sw = stop_at(last.pre, last.anchor)

C26_Witness ==
    /\ last.op = "toggle_at"
    /\ is_running(last.pre)
    /\ last.pre.elapsed > 0
    /\ last.anchor > unwrap(last.pre.start)
    /\ is_stopped(sw)
    /\ sw.elapsed > last.pre.elapsed

\* C27: from any state, set(new) yields exactly the stopped stopwatch with
\* elapsed = new, equal to with_elapsed(new), and reset() yields exactly the
\* stopped zero-elapsed stopwatch, equal to new(); a running interval is
\* discarded.
C27_SetResetStop ==
    /\ last.op = "set" =>
          /\ sw.elapsed = last.dur
          /\ sw.start = None
          /\ stopwatch_eq(sw, with_elapsed(last.dur))
    /\ last.op = "reset" =>
          /\ sw.elapsed = 0
          /\ sw.start = None
          /\ stopwatch_eq(sw, new)

C27_Witness ==
    /\ last.op = "set"
    /\ is_running(last.pre)
    /\ last.pre.elapsed > last.dur
    /\ last.dur > 0
    /\ now > unwrap(last.pre.start)
    /\ is_stopped(sw)

\* C28: set_in_place_at(new, anchor) and reset_in_place_at(anchor) never change
\* whether the stopwatch is running: a stopped one becomes (new, stopped) resp.
\* (0, stopped), a running one becomes running with elapsed = new resp. 0 and
\* start = anchor, so that elapsed_at(anchor) afterwards is new resp. 0.
C28_InPlaceKeepsRunning ==
    /\ last.op \in {"set_in_place_at", "set_in_place"} =>
          /\ is_running(sw) = is_running(last.pre)
          /\ sw.elapsed = last.dur
          /\ sw.start = IF is_running(last.pre) THEN Some(last.anchor) ELSE None
          /\ elapsed_at(sw, last.anchor) = last.dur
    /\ last.op \in {"reset_in_place_at", "reset_in_place"} =>
          /\ is_running(sw) = is_running(last.pre)
          /\ sw.elapsed = 0
          /\ sw.start = IF is_running(last.pre) THEN Some(last.anchor) ELSE None
          /\ elapsed_at(sw, last.anchor) = 0

C28_Witness ==
    /\ last.op = "set_in_place_at"
    /\ is_running(last.pre)
    /\ unwrap(last.pre.start) # last.anchor
    /\ last.pre.elapsed # last.dur
    /\ last.dur > 0
    /\ is_running(sw)
    /\ sw.start = Some(last.anchor)

\* C29: replace_at(new, anchor) returns the value elapsed_at(anchor) had
\* immediately before the call, min(Duration::MAX, elapsed + max(0, anchor -
\* start)), and always leaves the stopwatch stopped with elapsed = new.
C29_ReplaceReturnsOld ==
    last.op \in {"replace_at", "replace"} =>
        /\ last.ret = Min(DurationMax, LogicalElapsedAt(last.pre, last.anchor))
        /\ last.ret = elapsed_at(last.pre, last.anchor)
        /\ sw.elapsed = last.dur
        /\ sw.start = None

C29_Witness ==
    /\ last.op = "replace_at"
    /\ is_running(last.pre)
    /\ last.anchor > unwrap(last.pre.start)
    /\ LogicalElapsedAt(last.pre, last.anchor) > DurationMax
    /\ last.ret = DurationMax
    /\ last.dur # last.ret
    /\ is_stopped(sw)

\* C30: the constructors produce these states: new() and default() are
\* stopped with zero elapsed and equal to each other; with_elapsed(e) is
\* stopped with elapsed e; new_started_at(a) is running with zero elapsed and
\* start a, so elapsed_at(a) is zero; new_started() and with_elapsed_started(e)
\* are running with elapsed zero resp. e and start = now(); from_raw(e, s)
\* stores e and s unchanged.
C30_Constructors ==
    /\ last.op \in {"new", "default"} =>
          /\ sw.elapsed = 0
          /\ sw.start = None
          /\ stopwatch_eq(sw, new)
          /\ stopwatch_eq(sw, default)
    /\ stopwatch_eq(new, default)
    /\ last.op = "with_elapsed" => (sw.elapsed = last.dur /\ sw.start = None)
    /\ last.op = "new_started_at" =>
          /\ sw.elapsed = 0
          /\ sw.start = Some(last.anchor)
          /\ elapsed_at(sw, last.anchor) = 0
    /\ last.op = "new_started" => (sw.elapsed = 0 /\ sw.start = Some(last.anchor))
    /\ last.op = "with_elapsed_started" =>
          (sw.elapsed = last.dur /\ sw.start = Some(last.anchor))
    /\ last.op = "from_raw" => (sw.elapsed = last.dur /\ sw.start = last.anchor)

C30_Witness ==
    /\ last.op = "with_elapsed_started"
    /\ last.dur > 0
    /\ last.anchor = now
    /\ now > 0
    /\ last.pre # new
    /\ is_running(sw)
    /\ sw.start = Some(now)

\* C31: stop_at and checked_stop_at on an already stopped stopwatch change
\* nothing, for every anchor, and checked_stop_at returns true; hence stop_at(a)
\* followed by stop_at(b) leaves the same state as stop_at(a) alone.
C31_StopIdempotent ==
    /\ (last.op \in {"stop_at", "stop"} /\ is_stopped(last.pre)) => sw = last.pre
    /\ (last.op \in {"checked_stop_at", "checked_stop"} /\ is_stopped(last.pre)) =>
          (sw = last.pre /\ last.ret = TRUE)
    /\ \A a \in Instants, b \in Instants :
          stop_at(stop_at(sw, a), b) = stop_at(sw, a)

C31_Witness ==
    /\ last.op = "stop_at"
    /\ is_stopped(last.pre)
    /\ last.pre.elapsed > 0
    /\ last.pre.elapsed < DurationMax
    /\ last.anchor > 0
    /\ sw = last.pre

\* C32: for a running stopwatch from_raw(e, Some(s)), every duration d <= e
\* and every anchor for which checked_sub_at(d, anchor) succeeds, the result
\* compares equal to from_raw(e - d, Some(s)): folding the running interval
\* into elapsed and restarting at the anchor does not change which stopwatch
\* it is equal to.
C32_CheckedSubKeepsEquality ==
    (/\ last.op \in {"checked_sub_at", "checked_sub"}
     /\ is_running(last.pre)
     /\ last.dur <= last.pre.elapsed
     /\ is_some(last.ret)) =>
        /\ sw = unwrap(last.ret)
        /\ stopwatch_eq(unwrap(last.ret),
                        from_raw(last.pre.elapsed - last.dur, last.pre.start))
        /\ stopwatch_eq(from_raw(last.pre.elapsed - last.dur, last.pre.start),
                        unwrap(last.ret))

C32_Witness ==
    /\ last.op = "checked_sub_at"
    /\ is_running(last.pre)
    /\ last.dur > 0
    /\ last.dur <= last.pre.elapsed
    /\ last.anchor > unwrap(last.pre.start)
    /\ is_some(last.ret)
    /\ Representable(sw)
    /\ sw # from_raw(last.pre.elapsed - last.dur, last.pre.start)

\* C33: checked_add(dur) and saturating_add(dur) leave start exactly unchanged
\* and look only at the stored elapsed, not at the running interval: on a
\* running stopwatch checked_add succeeds whenever stored elapsed + dur <=
\* Duration::MAX, even when checked_elapsed_at then returns None because the
\* running interval pushes the total past Duration::MAX.
C33_AddIgnoresInterval ==
    /\ last.op \in {"checked_add", "saturating_add"} => sw.start = last.pre.start
    /\ last.op = "saturating_add" => last.ret.start = last.pre.start
    /\ last.op = "checked_add" =>
          /\ is_some(last.ret) <=> (last.pre.elapsed + last.dur <= DurationMax)
          /\ is_some(last.ret) =>
                /\ unwrap(last.ret).start = last.pre.start
                /\ unwrap(last.ret).elapsed = last.pre.elapsed + last.dur
                /\ sw = unwrap(last.ret)

C33_Witness ==
    /\ last.op = "checked_add"
    /\ is_running(last.pre)
    /\ last.dur > 0
    /\ is_some(last.ret)
    /\ is_some(checked_elapsed_at(last.pre, now))
    /\ checked_elapsed_at(sw, now) = None
    /\ is_running(sw)

\* C34: a != b implies that hashing a and hashing b feed the hasher
\* different data (a different variant tag or a different payload): the hashed
\* data of two stopwatches is identical only if they are equal.
C34_UnequalHashDiffer ==
    (is_some(cmp.eqs) /\ is_some(cmp.hashes)) =>
        /\ ~unwrap(cmp.eqs).ab => unwrap(cmp.hashes).a # unwrap(cmp.hashes).b
        /\ ~unwrap(cmp.eqs).bc => unwrap(cmp.hashes).b # unwrap(cmp.hashes).c
        /\ ~unwrap(cmp.eqs).ac => unwrap(cmp.hashes).a # unwrap(cmp.hashes).c
        /\ ~unwrap(cmp.eqs).ba => unwrap(cmp.hashes).a # unwrap(cmp.hashes).b

C34_Witness ==
    /\ is_some(cmp.eqs)
    /\ is_some(cmp.hashes)
    /\ is_stopped(cmp.a)
    /\ Representable(cmp.b)
    /\ cmp.a.elapsed = unwrap(cmp.b.start) - cmp.b.elapsed
    /\ Representable(cmp.c)
    /\ unwrap(cmp.c.start) - cmp.c.elapsed # unwrap(cmp.b.start) - cmp.b.elapsed
    /\ ~unwrap(cmp.eqs).ab
    /\ ~unwrap(cmp.eqs).bc
    /\ unwrap(cmp.hashes).a # unwrap(cmp.hashes).b
    /\ unwrap(cmp.hashes).b # unwrap(cmp.hashes).c

\* C35: stop_at(anchor) freezes the reading: for every state and anchor, the
\* stored elapsed after stop_at(anchor) equals the value elapsed_at(anchor)
\* returned immediately before the call, and equals the value
\* replace_at(new, anchor) would have returned.
C35_StopFreezesReading ==
    last.op \in {"stop_at", "stop"} =>
        /\ sw.elapsed = elapsed_at(last.pre, last.anchor)
        /\ \A d \in Durations : sw.elapsed = replace_at(last.pre, d, last.anchor)[2]

C35_Witness ==
    /\ last.op = "stop_at"
    /\ is_running(last.pre)
    /\ last.pre.elapsed > 0
    /\ last.pre.elapsed < DurationMax
    /\ last.anchor > unwrap(last.pre.start)
    /\ LogicalElapsedAt(last.pre, last.anchor) > DurationMax
    /\ sw.elapsed = DurationMax
    /\ is_stopped(sw)

\* C36: if two running stopwatches compare equal and both have a
\* representable start - elapsed, then for every anchor at or after both of
\* their start instants elapsed_at(anchor) returns the same value on both, and
\* stop_at(anchor) leaves both in equal states.
C36_BoundedEqualSameReading ==
    (/\ is_some(cmp.eqs)
     /\ unwrap(cmp.eqs).ab
     /\ Representable(cmp.a)
     /\ Representable(cmp.b)) =>
        \A anchor \in Instants :
            (unwrap(cmp.a.start) <= anchor /\ unwrap(cmp.b.start) <= anchor) =>
                /\ elapsed_at(cmp.a, anchor) = elapsed_at(cmp.b, anchor)
                /\ stop_at(cmp.a, anchor) = stop_at(cmp.b, anchor)
                /\ stopwatch_eq(stop_at(cmp.a, anchor), stop_at(cmp.b, anchor))

C36_Witness ==
    /\ is_some(cmp.eqs)
    /\ unwrap(cmp.eqs).ab
    /\ Representable(cmp.a)
    /\ Representable(cmp.b)
    /\ cmp.a.elapsed < cmp.b.elapsed
    /\ \E anchor \in Instants :
          /\ unwrap(cmp.b.start) < anchor
          /\ elapsed_at(cmp.a, anchor) < DurationMax
          /\ elapsed_at(cmp.a, anchor) = elapsed_at(cmp.b, anchor)
          /\ stop_at(cmp.a, anchor).elapsed > cmp.b.elapsed

NonDecreasingOps ==
    {"start_at", "start", "stop_at", "stop", "checked_stop_at", "checked_stop",
     "toggle_at", "toggle", "checked_toggle_at", "checked_toggle",
     "saturating_add", "checked_add"}

\* the subtract, set, reset and replace families
LoweringOps ==
    {"saturating_sub_at", "saturating_sub", "checked_sub_at", "checked_sub", "sub",
     "set", "set_in_place_at", "set_in_place",
     "reset", "reset_in_place_at", "reset_in_place",
     "replace_at", "replace"}

\* a constructor call begins a new stopwatch, hence a new sequence
ConstructorOps ==
    {"new", "default", "with_elapsed", "new_started_at", "new_started",
     "with_elapsed_started", "from_raw"}

\* C37: across any sequence made only of start_at, stop_at, checked_stop_at,
\* toggle_at, checked_toggle_at, saturating_add and checked_add, the stored
\* elapsed never decreases from one step to the next; only the subtract, set,
\* reset and replace families can lower the stored elapsed of a stopwatch.
C37_ElapsedNeverDecreases ==
    [][/\ last'.op \in NonDecreasingOps => sw'.elapsed >= sw.elapsed
       /\ (sw'.elapsed < sw.elapsed /\ last'.op \notin ConstructorOps) =>
              last'.op \in LoweringOps]_vars

C37_Witness ==
    /\ last.op = "checked_toggle_at"
    /\ last.ret = TRUE
    /\ is_running(last.pre)
    /\ last.pre.elapsed > 0
    /\ sw.elapsed > last.pre.elapsed
    /\ sw.elapsed < DurationMax

\* C38 (as claimed): running stopwatches whose start - elapsed is not
\* representable are still distinguished by their logical trajectory:
\* from_raw(MAX, Some(t)) equals from_raw(MAX - d, Some(t - d)), but
\* from_raw(MAX - d, Some(t)) is not equal to either of them.
C38_UnboundedDistinguished ==
    (/\ is_some(cmp.eqs)
     /\ \E t \in Instants, d \in 1..DurationMax :
            /\ d <= t
            /\ cmp.a = from_raw(DurationMax, Some(t))
            /\ cmp.b = from_raw(DurationMax - d, Some(t - d))
            /\ cmp.c = from_raw(DurationMax - d, Some(t))
     /\ ~Representable(cmp.a)
     /\ ~Representable(cmp.b)
     /\ ~Representable(cmp.c)) =>
        /\ unwrap(cmp.eqs).ab
        /\ ~unwrap(cmp.eqs).ac
        /\ ~unwrap(cmp.eqs).bc

====
